---- MODULE Spec2Model ----
(***************************************************************************)
(* A model of cmd/notation/sign.go: one invocation of `notation sign`.     *)
(*                                                                         *)
(* The state is the command's options (signOpts), the position of the      *)
(* invocation in the call chain RunE -> runSign -> signRemote / signLocal, *)
(* the locals those functions carry from one call to the next, what has    *)
(* been written to stdout and stderr, the error the command returns, and   *)
(* a history of the calls that touch the key store, the repository or the  *)
(* signer.  Strings are TLA+ strings: references are parsed, joined and    *)
(* searched character by character as the code does.                       *)
(***************************************************************************)
EXTENDS Integers, Sequences, FiniteSets, TLC

VARIABLES
    opts,       \* signOpts: signatureManifest, localContent, reference, ...
    pc,         \* the statement the invocation is at
    ociImageManifest, \* runSign's local of that name
    ref,        \* signRemote: the reference returned by prepareRemoteSigningContent
    layout,     \* signLocal: ociLayout{path, reference}
    resolved,   \* what Resolve returned: [called, desc, err]
    signOpts,   \* the notation.SignOptions handed to notation.Sign
    signed,     \* what notation.Sign returned: [called, desc, err]
    console,    \* the lines written, in order, each [stream, text]
    ret,        \* the error RunE returns (NoErr: nil)
    ioLog       \* history: the I/O calls made, in order

vars == <<opts, pc, ociImageManifest, ref, layout, resolved, signOpts, signed,
          console, ret, ioLog>>

-----------------------------------------------------------------------------
(* Bounds of the model *)

NumDigests == 2
NumTags == 1

-----------------------------------------------------------------------------
(* Strings *)

Range(s) == {s[i] : i \in DOMAIN s}

\* strings.Contains
Contains(s, sub) ==
    \E i \in 1..(Len(s) - Len(sub) + 1) : SubSeq(s, i, i + Len(sub) - 1) = sub

HasPrefix(s, p) == Len(s) >= Len(p) /\ SubSeq(s, 1, Len(p)) = p

\* strings.Index and strings.LastIndex of a one-character string, 1-based; 0: absent
IndexOf(s, c) ==
    IF \E i \in 1..Len(s) : SubSeq(s, i, i) = c
    THEN CHOOSE i \in 1..Len(s) :
            /\ SubSeq(s, i, i) = c
            /\ \A j \in 1..(i - 1) : SubSeq(s, j, j) # c
    ELSE 0

LastIndexOf(s, c) ==
    IF \E i \in 1..Len(s) : SubSeq(s, i, i) = c
    THEN CHOOSE i \in 1..Len(s) :
            /\ SubSeq(s, i, i) = c
            /\ \A j \in (i + 1)..Len(s) : SubSeq(s, j, j) # c
    ELSE 0

Before(s, i) == SubSeq(s, 1, i - 1)
After(s, i) == SubSeq(s, i + 1, Len(s))

-----------------------------------------------------------------------------
(* Constants of sign.go *)

signatureManifestArtifact == "artifact"
signatureManifestImage == "image"
referrersTagSchemaDeleteError == "failed to delete dangling referrers index"
supportedSignatureManifest == <<signatureManifestArtifact, signatureManifestImage>>

\* mutant: the comparison folds case
validateSignatureManifest_FoldCase(signatureManifest) ==
    signatureManifest \in {"artifact", "image", "Artifact", "Image"}

\* slices.Contains(supportedSignatureManifest, signatureManifest)
validateSignatureManifest(signatureManifest) ==
    \E i \in DOMAIN supportedSignatureManifest :
        supportedSignatureManifest[i] = signatureManifest

-----------------------------------------------------------------------------
(* Errors: a Go error is its dynamic type, the types in its Unwrap chain   *)
(* and its Error() text.                                                   *)

NoErr == [type |-> "nil", chain |-> {}, msg |-> ""]
NewError(text) == [type |-> "errorString", chain |-> {}, msg |-> text]

\* errors.As(err, &notation.ErrorPushSignatureFailed{})
IsPushSignatureFailed(err) ==
    \/ err.type = "ErrorPushSignatureFailed"
    \/ "ErrorPushSignatureFailed" \in err.chain

-----------------------------------------------------------------------------
(* Collaborators outside sign.go, as sign.go uses them *)

IsHex(c) ==
    c \in {"0", "1", "2", "3", "4", "5", "6", "7", "8", "9",
           "a", "b", "c", "d", "e", "f"}

\* digest.Digest(s).Validate() == nil: algorithm, ':' and a hex encoding (the
\* length of the encoding is not modelled)
ValidDigest(s) ==
    /\ Len(s) > 7
    /\ SubSeq(s, 1, 7) = "sha256:"
    /\ \A i \in 8..Len(s) : IsHex(SubSeq(s, i, i))

Descriptor(d) == [digest |-> d]
NoDescriptor == [digest |-> ""]

\* envelope.GetEnvelopeMediaType: a fixed table, an error for any other format
GetEnvelopeMediaType(format) ==
    CASE format = "jws" -> [err |-> NoErr, mediaType |-> "application/jose+json"]
      [] format = "cose" -> [err |-> NoErr, mediaType |-> "application/cose"]
      [] OTHER -> [err |-> NewError("signature format \"" \o format \o "\" not supported"),
                   mediaType |-> ""]

\* cmd.ParseFlagMap: "key=value" entries into a map; the first entry without
\* '=' or with an empty key or value, or repeating a key, is an error
FlagKey(entry) == Before(entry, IndexOf(entry, "="))
FlagValue(entry) == After(entry, IndexOf(entry, "="))
FlagEntryMalformed(entry) ==
    \/ IndexOf(entry, "=") = 0
    \/ FlagKey(entry) = ""
    \/ FlagValue(entry) = ""
FlagEntryBad(list, i) ==
    \/ FlagEntryMalformed(list[i])
    \/ \E j \in 1..(i - 1) : FlagKey(list[j]) = FlagKey(list[i])
ParseFlagMap(list, flagName) ==
    IF \E i \in DOMAIN list : FlagEntryBad(list, i)
    THEN LET i == CHOOSE k \in DOMAIN list :
                      /\ FlagEntryBad(list, k)
                      /\ \A j \in 1..(k - 1) : ~FlagEntryBad(list, j)
         IN  [err |-> NewError(
                  IF FlagEntryMalformed(list[i])
                  THEN "could not parse flag " \o flagName \o ": " \o list[i]
                  ELSE "duplicate flag " \o flagName \o " key: " \o FlagKey(list[i])),
              map |-> {}]
    ELSE [err |-> NoErr,
          map |-> {<<FlagKey(list[i]), FlagValue(list[i])>> : i \in DOMAIN list}]

\* registry.ParseReference: <registry>/<repository>[:<tag>|@<digest>]
NoReference == [Registry |-> "", Repository |-> "", Reference |-> ""]
ParseReference(raw) ==
    LET slash == IndexOf(raw, "/")
        registry == Before(raw, slash)
        path == After(raw, slash)
        at == IndexOf(path, "@")
        colon == IndexOf(path, ":")
        repository == IF at # 0 THEN Before(path, at)
                      ELSE IF colon # 0 THEN Before(path, colon)
                      ELSE path
        reference == IF at # 0 THEN After(path, at)
                     ELSE IF colon # 0 THEN After(path, colon)
                     ELSE ""
    IN  IF slash = 0 \/ registry = "" \/ repository = ""
        THEN [err |-> NewError("invalid reference: " \o raw), ref |-> NoReference]
        ELSE IF at # 0 /\ ~ValidDigest(reference)
        THEN [err |-> NewError("invalid reference: invalid digest " \o reference),
              ref |-> NoReference]
        ELSE [err |-> NoErr,
              ref |-> [Registry |-> registry, Repository |-> repository,
                       Reference |-> reference]]

\* registry.Reference.String()
RefString(r) ==
    IF r.Repository = "" THEN r.Registry
    ELSE IF r.Reference = "" THEN r.Registry \o "/" \o r.Repository
    ELSE IF ValidDigest(r.Reference)
         THEN r.Registry \o "/" \o r.Repository \o "@" \o r.Reference
         ELSE r.Registry \o "/" \o r.Repository \o ":" \o r.Reference

\* parseOCILayoutReference: <path>@<digest>, else <path>:<tag> at the last ':'
parseOCILayoutReference(raw) ==
    LET at == LastIndexOf(raw, "@")
        colon == LastIndexOf(raw, ":")
        idx == IF at # 0 THEN at ELSE colon
    IN  IF idx = 0 \/ Before(raw, idx) = ""
        THEN [err |-> NewError("reference is missing either digest or tag"),
              path |-> "", reference |-> ""]
        ELSE [err |-> NoErr, path |-> Before(raw, idx), reference |-> After(raw, idx)]

\* localArtifactReference
localArtifactReference(path, reference) == path \o "@" \o reference

-----------------------------------------------------------------------------
(* The inputs of an invocation *)

Digests == {"sha256:" \o ToString(i) : i \in 1..NumDigests}
Tags == {"v" \o ToString(i) : i \in 1..NumTags}

Locations == {"localhost:5000/repo", "/local/layout"}
DigestRefs == {loc \o "@" \o d : loc \in Locations, d \in Digests}
TagRefs == {loc \o ":" \o t : loc \in Locations, t \in Tags}
MalformedRefs == Locations \cup {loc \o "@sha256:zz" : loc \in Locations}
References == DigestRefs \cup TagRefs \cup MalformedRefs

ManifestKinds == {"image", "artifact", "Image", "container"}
SignatureFormats == {"jws", "cose", "xml"}
FlagLists == {<< >>, <<"a=1", "b=2">>, <<"a=1", "a=2">>, <<"a">>}
Expiries == {0, 24}

\* the errors notation.Sign may fail with
SignErrors ==
    { [type |-> "ErrorPushSignatureFailed", chain |-> {},
       msg |-> "failed to push signature: " \o referrersTagSchemaDeleteError \o ": 405"],
      [type |-> "ErrorPushSignatureFailed", chain |-> {},
       msg |-> "failed to push signature: unauthorized"],
      [type |-> "wrapError", chain |-> {"ErrorPushSignatureFailed"},
       msg |-> "sign: " \o referrersTagSchemaDeleteError],
      [type |-> "errorString", chain |-> {},
       msg |-> "plugin: " \o referrersTagSchemaDeleteError],
      [type |-> "errorString", chain |-> {}, msg |-> "signing key not found"] }

ErrGetSigner == NewError("signing key not found in signingkeys.json")
ErrOpenRepository == NewError("failed to open the signature repository")
ErrResolve == NewError("manifest unknown")

NoSignOptions ==
    [ArtifactReference |-> "", SignatureMediaType |-> "", ExpiryDuration |-> 0,
     PluginConfig |-> {}, UserMetadata |-> {}]
NotResolved == [called |-> FALSE, desc |-> NoDescriptor, err |-> NoErr]
NotSigned == [called |-> FALSE, desc |-> NoDescriptor, err |-> NoErr]

Init ==
    /\ opts \in [signatureManifest : ManifestKinds,
                 localContent : BOOLEAN,
                 reference : References,
                 SignatureFormat : SignatureFormats,
                 pluginConfig : FlagLists,
                 userMetadata : FlagLists,
                 expiry : Expiries]
    /\ pc = "RunE"
    /\ ociImageManifest = FALSE
    /\ ref = NoReference
    /\ layout = [path |-> "", reference |-> ""]
    /\ resolved = NotResolved
    /\ signOpts = NoSignOptions
    /\ signed = NotSigned
    /\ console = << >>
    /\ ret = NoErr
    /\ ioLog = << >>

-----------------------------------------------------------------------------
(* Console output *)

Stdout(text) == [stream |-> "stdout", text |-> text]
Stderr(text) == [stream |-> "stderr", text |-> text]

SuccessPrefix == "Successfully signed "
SuccessLine(reference) == Stdout(SuccessPrefix \o reference)
TagWarningPrefix ==
    "Warning: Always sign the artifact using digest(@sha256:...) rather than a tag(:"
TagWarning(tag) ==
    Stderr(TagWarningPrefix \o tag
           \o ") because tags are mutable and a tag reference can point to a different artifact than the one signed.")
ReferrersWarning ==
    Stderr("Warning: Removal of outdated referrers index is not supported by the remote registry. Garbage collection may be required.")
ResolvedLine(reference, desc) ==
    Stdout("OCI layout reference " \o reference
           \o " resolved to target manifest descriptor: {Digest:" \o desc.digest \o "}")
ArtifactManifestGuidance ==
    ". Possible reason: target registry does not support OCI artifact manifest. Try removing the flag --signature-manifest artifact to store signatures using OCI image manifest"

-----------------------------------------------------------------------------
(* The repository and the signer *)

\* Repository.Resolve: a digest resolves to the descriptor of that digest, a tag
\* of the repository to the descriptor the repository holds for it, anything
\* else to nothing; any lookup may fail
ResolveOutcomes(reference) ==
    {[err |-> ErrResolve, desc |-> NoDescriptor]} \cup
    (IF ValidDigest(reference)
     THEN {[err |-> NoErr, desc |-> Descriptor(reference)]}
     ELSE IF reference \in Tags
          THEN {[err |-> NoErr, desc |-> Descriptor(d)] : d \in Digests}
          ELSE {})

\* notation.Sign: one of the errors, or the descriptor of the artifact the
\* request names, which signLocal receives as targetDesc
SignedDigest(request) ==
    After(request.ArtifactReference, LastIndexOf(request.ArtifactReference, "@"))
SignOutcomes(request) ==
    {[err |-> NoErr, desc |-> Descriptor(SignedDigest(request))]}
    \cup {[err |-> e, desc |-> NoDescriptor] : e \in SignErrors}

Return(err) == ret' = err /\ pc' = "done"

-----------------------------------------------------------------------------
(* signCommand: RunE *)

signCommandRunE ==
    /\ pc = "RunE"
    /\ IF ~validateSignatureManifest(opts.signatureManifest)
       THEN Return(NewError(
                "signature manifest must be one of the following [artifact image] but got "
                \o opts.signatureManifest))
       ELSE pc' = "runSign" /\ UNCHANGED ret
    /\ UNCHANGED <<opts, ociImageManifest, ref, layout, resolved, signOpts, signed,
                   console, ioLog>>

(* runSign *)

runSign ==
    /\ pc = "runSign"
    /\ ioLog' = Append(ioLog, "GetSigner")
    /\ \E ok \in BOOLEAN :
          IF ~ok
          THEN Return(ErrGetSigner) /\ UNCHANGED ociImageManifest
          ELSE /\ ociImageManifest' = (opts.signatureManifest = signatureManifestImage)
               /\ pc' = IF opts.localContent THEN "signLocal" ELSE "signRemote"
               /\ UNCHANGED ret
    /\ UNCHANGED <<opts, ref, layout, resolved, signOpts, signed, console>>

(* signRemote *)

\* getSignatureRepositoryForSign: the reference is parsed, then the remote
\* repository is opened
signRemote_getRepository ==
    /\ pc = "signRemote"
    /\ LET parsed == ParseReference(opts.reference)
       IN  IF parsed.err # NoErr
           THEN Return(parsed.err) /\ UNCHANGED ioLog
           ELSE /\ ioLog' = Append(ioLog, "OpenRepository")
                /\ \E ok \in BOOLEAN :
                      IF ~ok
                      THEN Return(ErrOpenRepository)
                      ELSE pc' = "prepareRemoteSigningContent" /\ UNCHANGED ret
    /\ UNCHANGED <<opts, ociImageManifest, ref, layout, resolved, signOpts, signed,
                   console>>

\* resolveReference: Resolve the reference's tag or digest; a digest reference
\* is returned as it is, a tag reference is reported to fn and then pinned to
\* the digest of the descriptor
resolveReference(reference, out) ==
    LET parsed == ParseReference(reference)
    IN  IF parsed.err # NoErr
        THEN [err |-> parsed.err, ref |-> NoReference, lines |-> << >>]
        ELSE IF out.err # NoErr
        THEN [err |-> out.err, ref |-> NoReference, lines |-> << >>]
        ELSE IF ValidDigest(parsed.ref.Reference)
        THEN [err |-> NoErr, ref |-> parsed.ref, lines |-> << >>]
        ELSE [err |-> NoErr,
              ref |-> [parsed.ref EXCEPT !.Reference = out.desc.digest],
              lines |-> <<TagWarning(parsed.ref.Reference)>>]

\* mutant: the request carries the reference as the user gave it
remoteSignOptions_RawReference(r, mediaType, pluginConfig, userMetadata) ==
    [ArtifactReference |-> opts.reference,
     SignatureMediaType |-> mediaType,
     ExpiryDuration |-> opts.expiry,
     PluginConfig |-> pluginConfig,
     UserMetadata |-> userMetadata]

\* the SignOptions prepareRemoteSigningContent builds
remoteSignOptions(r, mediaType, pluginConfig, userMetadata) ==
    [ArtifactReference |-> RefString(r),
     SignatureMediaType |-> mediaType,
     ExpiryDuration |-> opts.expiry,
     PluginConfig |-> pluginConfig,
     UserMetadata |-> userMetadata]

\* mutant: the reference is resolved before the options are parsed
prepareRemoteSigningContent_ResolveFirst ==
    /\ pc = "prepareRemoteSigningContent"
    /\ ioLog' = Append(ioLog, "Resolve")
    /\ \E out \in ResolveOutcomes(ParseReference(opts.reference).ref.Reference) :
          LET r == resolveReference(opts.reference, out)
              media == GetEnvelopeMediaType(opts.SignatureFormat)
              pluginConfig == ParseFlagMap(opts.pluginConfig, "plugin-config")
              userMetadata == ParseFlagMap(opts.userMetadata, "user-metadata")
          IN  /\ console' = console \o r.lines
              /\ resolved' = [called |-> TRUE, desc |-> out.desc, err |-> out.err]
              /\ IF r.err # NoErr
                 THEN Return(r.err) /\ UNCHANGED <<ref, signOpts>>
                 ELSE IF media.err # NoErr
                 THEN Return(media.err) /\ UNCHANGED <<ref, signOpts>>
                 ELSE IF pluginConfig.err # NoErr
                 THEN Return(pluginConfig.err) /\ UNCHANGED <<ref, signOpts>>
                 ELSE IF userMetadata.err # NoErr
                 THEN Return(userMetadata.err) /\ UNCHANGED <<ref, signOpts>>
                 ELSE /\ ref' = r.ref
                      /\ signOpts' = remoteSignOptions(r.ref, media.mediaType,
                                         pluginConfig.map, userMetadata.map)
                      /\ pc' = "signRemoteSign"
                      /\ UNCHANGED ret
    /\ UNCHANGED <<opts, ociImageManifest, layout, signed>>

prepareRemoteSigningContent ==
    /\ pc = "prepareRemoteSigningContent"
    /\ LET media == GetEnvelopeMediaType(opts.SignatureFormat)
           pluginConfig == ParseFlagMap(opts.pluginConfig, "plugin-config")
           userMetadata == ParseFlagMap(opts.userMetadata, "user-metadata")
       IN  IF media.err # NoErr
           THEN Return(media.err)
                /\ UNCHANGED <<ref, resolved, signOpts, console, ioLog>>
           ELSE IF pluginConfig.err # NoErr
           THEN Return(pluginConfig.err)
                /\ UNCHANGED <<ref, resolved, signOpts, console, ioLog>>
           ELSE IF userMetadata.err # NoErr
           THEN Return(userMetadata.err)
                /\ UNCHANGED <<ref, resolved, signOpts, console, ioLog>>
           ELSE /\ ioLog' = Append(ioLog, "Resolve")
                /\ \E out \in ResolveOutcomes(ParseReference(opts.reference).ref.Reference) :
                      LET r == resolveReference(opts.reference, out)
                      IN  /\ console' = console \o r.lines
                          /\ resolved' = [called |-> TRUE, desc |-> out.desc,
                                          err |-> out.err]
                          /\ IF r.err # NoErr
                             THEN Return(r.err) /\ UNCHANGED <<ref, signOpts>>
                             ELSE /\ ref' = r.ref
                                  /\ signOpts' = remoteSignOptions(r.ref, media.mediaType,
                                                     pluginConfig.map, userMetadata.map)
                                  /\ pc' = "signRemoteSign"
                                  /\ UNCHANGED ret
    /\ UNCHANGED <<opts, ociImageManifest, layout, signed>>

\* mutant: the manifest kind is not looked at
signRemoteResult_AnyKind(err, image, reference) ==
    IF err # NoErr
    THEN IF IsPushSignatureFailed(err)
            /\ Contains(err.msg, referrersTagSchemaDeleteError)
         THEN [ret |-> NoErr, lines |-> <<ReferrersWarning, SuccessLine(reference)>>]
         ELSE [ret |-> err, lines |-> << >>]
    ELSE [ret |-> NoErr, lines |-> <<SuccessLine(reference)>>]

\* mutant: the warning branch falls through to "return err"
signRemoteResult_NoReturn(err, image, reference) ==
    IF err # NoErr
    THEN IF IsPushSignatureFailed(err) /\ ~image
         THEN [ret |-> NewError(err.msg \o ArtifactManifestGuidance), lines |-> << >>]
         ELSE IF IsPushSignatureFailed(err)
                 /\ Contains(err.msg, referrersTagSchemaDeleteError)
         THEN [ret |-> err, lines |-> <<ReferrersWarning, SuccessLine(reference)>>]
         ELSE [ret |-> err, lines |-> << >>]
    ELSE [ret |-> NoErr, lines |-> <<SuccessLine(reference)>>]

\* mutant: the marker is looked for in the text of any error
signRemoteResult_TextOnly(err, image, reference) ==
    IF err # NoErr
    THEN IF IsPushSignatureFailed(err) /\ ~image
         THEN [ret |-> NewError(err.msg \o ArtifactManifestGuidance), lines |-> << >>]
         ELSE IF Contains(err.msg, referrersTagSchemaDeleteError)
         THEN [ret |-> NoErr, lines |-> <<ReferrersWarning, SuccessLine(reference)>>]
         ELSE [ret |-> err, lines |-> << >>]
    ELSE [ret |-> NoErr, lines |-> <<SuccessLine(reference)>>]

\* what signRemote does with the error of notation.Sign
signRemoteResult(err, image, reference) ==
    IF err # NoErr
    THEN IF IsPushSignatureFailed(err) /\ ~image
         THEN [ret |-> NewError(err.msg \o ArtifactManifestGuidance), lines |-> << >>]
         ELSE IF IsPushSignatureFailed(err)
                 /\ Contains(err.msg, referrersTagSchemaDeleteError)
         THEN [ret |-> NoErr, lines |-> <<ReferrersWarning, SuccessLine(reference)>>]
         ELSE [ret |-> err, lines |-> << >>]
    ELSE [ret |-> NoErr, lines |-> <<SuccessLine(reference)>>]

signRemote_Sign ==
    /\ pc = "signRemoteSign"
    /\ ioLog' = Append(ioLog, "Sign")
    /\ \E out \in SignOutcomes(signOpts) :
          LET r == signRemoteResult(out.err, ociImageManifest, RefString(ref))
          IN  /\ signed' = [called |-> TRUE, desc |-> out.desc, err |-> out.err]
              /\ console' = console \o r.lines
              /\ Return(r.ret)
    /\ UNCHANGED <<opts, ociImageManifest, ref, layout, resolved, signOpts>>

(* signLocal *)

signLocal_prepare ==
    /\ pc = "signLocal"
    /\ LET media == GetEnvelopeMediaType(opts.SignatureFormat)
           pluginConfig == ParseFlagMap(opts.pluginConfig, "plugin-config")
           userMetadata == ParseFlagMap(opts.userMetadata, "user-metadata")
           parsed == parseOCILayoutReference(opts.reference)
       IN  IF media.err # NoErr
           THEN Return(media.err) /\ UNCHANGED <<layout, signOpts, ioLog>>
           ELSE IF pluginConfig.err # NoErr
           THEN Return(pluginConfig.err) /\ UNCHANGED <<layout, signOpts, ioLog>>
           ELSE IF userMetadata.err # NoErr
           THEN Return(userMetadata.err) /\ UNCHANGED <<layout, signOpts, ioLog>>
           ELSE IF parsed.err # NoErr
           THEN Return(parsed.err) /\ UNCHANGED <<layout, signOpts, ioLog>>
           ELSE /\ layout' = [path |-> parsed.path, reference |-> parsed.reference]
                /\ signOpts' = [NoSignOptions EXCEPT
                                   !.SignatureMediaType = media.mediaType,
                                   !.ExpiryDuration = opts.expiry,
                                   !.PluginConfig = pluginConfig.map,
                                   !.UserMetadata = userMetadata.map]
                /\ ioLog' = Append(ioLog, "OpenRepository")
                /\ \E ok \in BOOLEAN :
                      IF ~ok
                      THEN Return(ErrOpenRepository)
                      ELSE pc' = "signLocalResolve" /\ UNCHANGED ret
    /\ UNCHANGED <<opts, ociImageManifest, ref, resolved, signed, console>>

\* mutant: the warning does not depend on the form of the reference
signLocalResolved_WarnAlways(l, out) ==
    IF out.err # NoErr
    THEN [err |-> NewError("failed to resolve OCI layout reference: " \o out.err.msg),
          reference |-> l.reference, lines |-> << >>]
    ELSE [err |-> NoErr,
          reference |-> out.desc.digest,
          lines |-> <<ResolvedLine(l.reference, out.desc), TagWarning(l.reference)>>]

\* what signLocal does with the outcome of sigRepo.Resolve
signLocalResolved(l, out) ==
    IF out.err # NoErr
    THEN [err |-> NewError("failed to resolve OCI layout reference: " \o out.err.msg),
          reference |-> l.reference, lines |-> << >>]
    ELSE [err |-> NoErr,
          reference |-> out.desc.digest,
          lines |-> <<ResolvedLine(l.reference, out.desc)>>
                    \o (IF ~ValidDigest(l.reference)
                        THEN <<TagWarning(l.reference)>> ELSE << >>)]

signLocal_resolve ==
    /\ pc = "signLocalResolve"
    /\ ioLog' = Append(ioLog, "Resolve")
    /\ \E out \in ResolveOutcomes(layout.reference) :
          LET r == signLocalResolved(layout, out)
          IN  /\ console' = console \o r.lines
              /\ resolved' = [called |-> TRUE, desc |-> out.desc, err |-> out.err]
              /\ IF r.err # NoErr
                 THEN Return(r.err) /\ UNCHANGED <<layout, signOpts>>
                 ELSE /\ layout' = [layout EXCEPT !.reference = r.reference]
                      /\ signOpts' = [signOpts EXCEPT !.ArtifactReference =
                                         localArtifactReference(layout.path, r.reference)]
                      /\ pc' = "signLocalSign"
                      /\ UNCHANGED ret
    /\ UNCHANGED <<opts, ociImageManifest, ref, signed>>

\* mutant: the success line shows the reference as the user gave it
signLocalResult_RawReference(out, path) ==
    IF out.err # NoErr
    THEN [ret |-> out.err, lines |-> << >>]
    ELSE [ret |-> NoErr, lines |-> <<SuccessLine(opts.reference)>>]

\* mutant: the error of notation.Sign is wrapped in a new error
signLocalResult_Wrapped(out, path) ==
    IF out.err # NoErr
    THEN [ret |-> NewError("failed to sign: " \o out.err.msg), lines |-> << >>]
    ELSE [ret |-> NoErr, lines |-> <<SuccessLine(path \o "@" \o out.desc.digest)>>]

\* mutant: the local path turns the marker failure into a warning as well
signLocalResult_Downgrade(out, path) ==
    IF out.err # NoErr
    THEN IF IsPushSignatureFailed(out.err)
            /\ Contains(out.err.msg, referrersTagSchemaDeleteError)
         THEN [ret |-> NoErr,
               lines |-> <<ReferrersWarning, SuccessLine(path \o "@" \o out.desc.digest)>>]
         ELSE [ret |-> out.err, lines |-> << >>]
    ELSE [ret |-> NoErr, lines |-> <<SuccessLine(path \o "@" \o out.desc.digest)>>]

\* what signLocal does with the outcome of notation.Sign
signLocalResult(out, path) ==
    IF out.err # NoErr
    THEN [ret |-> out.err, lines |-> << >>]
    ELSE [ret |-> NoErr, lines |-> <<SuccessLine(path \o "@" \o out.desc.digest)>>]

signLocal_Sign ==
    /\ pc = "signLocalSign"
    /\ ioLog' = Append(ioLog, "Sign")
    /\ \E out \in SignOutcomes(signOpts) :
          LET r == signLocalResult(out, layout.path)
          IN  /\ signed' = [called |-> TRUE, desc |-> out.desc, err |-> out.err]
              /\ console' = console \o r.lines
              /\ Return(r.ret)
    /\ UNCHANGED <<opts, ociImageManifest, ref, layout, resolved, signOpts>>

-----------------------------------------------------------------------------

Next ==
    \/ signCommandRunE
    \/ runSign
    \/ signRemote_getRepository
    \/ prepareRemoteSigningContent
    \/ signRemote_Sign
    \/ signLocal_prepare
    \/ signLocal_resolve
    \/ signLocal_Sign

Spec == Init /\ [][Next]_vars

-----------------------------------------------------------------------------
(* Observations of a run *)

Done == pc = "done"
Remote == ~opts.localContent
Local == opts.localContent

IsSuccessLine(l) == l.stream = "stdout" /\ HasPrefix(l.text, SuccessPrefix)
IsWarningLine(l) == l.stream = "stderr" /\ HasPrefix(l.text, "Warning: ")
IsTagWarning(l) == l.stream = "stderr" /\ HasPrefix(l.text, TagWarningPrefix)

SuccessLines == {i \in DOMAIN console : IsSuccessLine(console[i])}
TagWarnings == {i \in DOMAIN console : IsTagWarning(console[i])}
Calls(name) == {i \in DOMAIN ioLog : ioLog[i] = name}

HasMarker(err) == Contains(err.msg, referrersTagSchemaDeleteError)
Resolved == resolved.called /\ resolved.err = NoErr

\* the three user-visible outcomes
PlainSuccess ==
    /\ ret = NoErr
    /\ Cardinality(SuccessLines) = 1
    /\ \A i \in SuccessLines : \A j \in 1..(i - 1) : ~IsWarningLine(console[j])
WarnedSuccess ==
    /\ ret = NoErr
    /\ Cardinality(SuccessLines) = 1
    /\ \A i \in SuccessLines : \E j \in 1..(i - 1) : IsWarningLine(console[j])
Failure == ret # NoErr /\ SuccessLines = {}

\* the outcome class of the decision table a finished run shows
ObservedClass ==
    IF ret # NoErr THEN "Failure"
    ELSE IF \E i \in DOMAIN console : console[i] = ReferrersWarning
         THEN "SuccessWithWarning"
         ELSE "Success"

\* the class signRemote gives an error of notation.Sign
RemoteClass(err, image) ==
    LET r == signRemoteResult(err, image, "")
    IN  IF r.ret # NoErr THEN "Failure"
        ELSE IF ReferrersWarning \in Range(r.lines) THEN "SuccessWithWarning"
        ELSE "Success"

\* the location of the user's reference and the digest it names
InputLocation ==
    IF Local THEN parseOCILayoutReference(opts.reference).path
    ELSE LET r == ParseReference(opts.reference).ref
         IN  r.Registry \o "/" \o r.Repository
InputDigest == After(opts.reference, LastIndexOf(opts.reference, "@"))

\* the argument and format errors of this invocation's options
ArgumentErrors ==
    { GetEnvelopeMediaType(opts.SignatureFormat).err,
      ParseFlagMap(opts.pluginConfig, "plugin-config").err,
      ParseFlagMap(opts.userMetadata, "user-metadata").err,
      IF Local THEN parseOCILayoutReference(opts.reference).err
      ELSE ParseReference(opts.reference).err } \ {NoErr}
FailedOnArgument == Done /\ ret \in ArgumentErrors

-----------------------------------------------------------------------------
(* C1: on the remote path, a signature-push failure whose text holds the   *)
(* referrers-cleanup marker ends, under manifest kind image, in a warning  *)
(* on stderr followed by the success line and no error; under kind         *)
(* artifact, with the same error, in an error and no success line.         *)
C1_MarkerPushFailure ==
    (Done /\ Remote /\ signed.called
     /\ IsPushSignatureFailed(signed.err) /\ HasMarker(signed.err))
    => /\ opts.signatureManifest = "image" =>
            /\ ret = NoErr
            /\ Len(console) >= 2
            /\ console[Len(console) - 1] = ReferrersWarning
            /\ IsSuccessLine(console[Len(console)])
            /\ Cardinality(SuccessLines) = 1
       /\ opts.signatureManifest = "artifact" =>
            /\ ret # NoErr
            /\ SuccessLines = {}

C1_Witness ==
    /\ Done /\ Remote /\ signed.called
    /\ IsPushSignatureFailed(signed.err) /\ HasMarker(signed.err)
    /\ opts.signatureManifest = "image"
    /\ ret = NoErr

(* C2: validateSignatureManifest accepts exactly "image" and "artifact";   *)
(* a run with any other kind has failed at once: no signer obtained, no    *)
(* repository opened, nothing resolved, nothing signed, nothing printed.   *)
C2_KindValidation ==
    /\ validateSignatureManifest(opts.signatureManifest)
          <=> opts.signatureManifest \in {"image", "artifact"}
    /\ (opts.signatureManifest \notin {"image", "artifact"} /\ pc # "RunE")
          => /\ Done
             /\ ret # NoErr
             /\ ioLog = << >>
             /\ console = << >>
             /\ ~resolved.called
             /\ ~signed.called

C2_Witness ==
    /\ Done
    /\ opts.signatureManifest = "Image"
    /\ ret # NoErr
    /\ ioLog = << >>

(* C3: a finished invocation shows exactly one of: the success line once   *)
(* and no error; the success line once, after a warning, and no error; an  *)
(* error and no success line.  The success line is never printed before    *)
(* the invocation finishes.                                                *)
C3_ThreeOutcomes ==
    /\ Cardinality(SuccessLines) <= 1
    /\ ~Done => SuccessLines = {}
    /\ Done => /\ PlainSuccess \/ WarnedSuccess \/ Failure
               /\ ~(PlainSuccess /\ WarnedSuccess)
               /\ (ret = NoErr <=> Cardinality(SuccessLines) = 1)

C3_Witness ==
    /\ Done /\ Remote /\ WarnedSuccess
    /\ signed.err # NoErr

(* C4, as stated: a run that fails on an argument or format error          *)
(* (envelope format, plugin-config or user-metadata entry, malformed       *)
(* reference) has performed no I/O at all before failing.                  *)
C4_NoIOBeforeArgumentError ==
    FailedOnArgument => ioLog = << >>

(* C4, amended: a run that fails on an argument or format error has        *)
(* neither resolved the reference nor invoked the signer, and has printed  *)
(* nothing; the signer has been obtained before, and on the remote path    *)
(* the signature repository has been opened unless the reference itself    *)
(* is malformed.                                                           *)
C4_ArgumentErrorBeforeResolve ==
    FailedOnArgument
    => /\ Calls("Resolve") = {}
       /\ Calls("Sign") = {}
       /\ ~resolved.called /\ ~signed.called
       /\ console = << >>
       /\ ioLog = IF Remote /\ ParseReference(opts.reference).err = NoErr
                  THEN <<"GetSigner", "OpenRepository">>
                  ELSE <<"GetSigner">>

C4_Witness ==
    /\ FailedOnArgument /\ Remote
    /\ ret = ParseFlagMap(opts.userMetadata, "user-metadata").err
    /\ ioLog = <<"GetSigner", "OpenRepository">>

(* C5: once the reference has resolved, the mutable-tag warning has been   *)
(* written exactly once if the user's reference is tag-form and not at all *)
(* if it is a valid digest-form reference, and this is so from before the  *)
(* signer is invoked until the end of the run; a digest-form reference     *)
(* resolves to that same digest.  Nothing is warned before resolution.     *)
C5_TagWarningOnce ==
    /\ ~Resolved => TagWarnings = {}
    /\ Resolved =>
          /\ opts.reference \in TagRefs => Cardinality(TagWarnings) = 1
          /\ opts.reference \in DigestRefs =>
                /\ TagWarnings = {}
                /\ resolved.desc.digest = InputDigest
          /\ signed.called => Calls("Sign") = {Len(ioLog)}
          /\ \A i \in TagWarnings : ~(\E j \in 1..(i - 1) : IsSuccessLine(console[j]))

C5_Witness ==
    /\ Done /\ Local /\ Resolved /\ signed.called
    /\ opts.reference \in TagRefs
    /\ Cardinality(TagWarnings) = 1

C7_ErrorsUnchanged ==
    Done
    => /\ (resolved.called /\ resolved.err # NoErr) => ret = resolved.err
       /\ (signed.called /\ signed.err # NoErr /\ ~IsPushSignatureFailed(signed.err))
             => ret = signed.err

(* C7, amended: an error of notation.Sign that is no signature-push        *)
(* failure is returned as it is on both paths; a failure of Resolve is     *)
(* returned as it is on the remote path, and on the local path as a new    *)
(* error whose text is "failed to resolve OCI layout reference: " and the  *)
(* text of the Resolve error.                                              *)
C7_ErrorsUnchangedButLocalResolve ==
    Done
    => /\ (resolved.called /\ resolved.err # NoErr) =>
             ret = IF Remote THEN resolved.err
                   ELSE NewError("failed to resolve OCI layout reference: "
                                 \o resolved.err.msg)
       /\ (signed.called /\ signed.err # NoErr /\ ~IsPushSignatureFailed(signed.err))
             => ret = signed.err

C7_Witness ==
    /\ Done /\ Local
    /\ resolved.called /\ resolved.err # NoErr
    /\ ret # resolved.err
    /\ Contains(ret.msg, resolved.err.msg)

(* C8: the signer is invoked at most once, right after a successful        *)
(* Resolve, and the reference of its request is the location joined by "@" *)
(* with the digest of the descriptor Resolve returned; a tag the user gave *)
(* is not the reference of the request.                                    *)
C8_RequestIsDigestPinned ==
    /\ Cardinality(Calls("Sign")) <= 1
    /\ signed.called <=> Calls("Sign") # {}
    /\ signed.called =>
          /\ Resolved
          /\ Len(ioLog) >= 2
          /\ ioLog[Len(ioLog)] = "Sign"
          /\ ioLog[Len(ioLog) - 1] = "Resolve"
          /\ signOpts.ArtifactReference = InputLocation \o "@" \o resolved.desc.digest
          /\ ValidDigest(resolved.desc.digest)
          /\ opts.reference \in TagRefs => signOpts.ArtifactReference # opts.reference

C8_Witness ==
    /\ signed.called /\ Remote
    /\ opts.reference \in TagRefs
    /\ signOpts.ArtifactReference = "localhost:5000/repo@sha256:2"

(* C9, as stated: for the same manifest kind and the same error of the      *)
(* signing step, a local run ends in the outcome class a remote run ends   *)
(* in.                                                                     *)
C9_PathsClassifyAlike ==
    (Done /\ signed.called)
    => ObservedClass = RemoteClass(signed.err, ociImageManifest)

(* C9, amended: the two paths end in the same outcome class except for a   *)
(* signature-push failure with the referrers-cleanup marker under manifest *)
(* kind image, which is SuccessWithWarning on the remote path and Failure  *)
(* on the local path.                                                      *)
C9_PathsClassifyAlikeButMarker ==
    (Done /\ signed.called)
    => ObservedClass =
          IF /\ Local /\ ociImageManifest
             /\ IsPushSignatureFailed(signed.err) /\ HasMarker(signed.err)
          THEN "Failure"
          ELSE RemoteClass(signed.err, ociImageManifest)

C9_Witness ==
    /\ Done /\ signed.called /\ Local /\ ociImageManifest
    /\ IsPushSignatureFailed(signed.err) /\ HasMarker(signed.err)
    /\ ObservedClass = "Failure"
    /\ RemoteClass(signed.err, ociImageManifest) = "SuccessWithWarning"

(* C10: on the remote path only a signature-push failure with the marker   *)
(* under kind image is turned into a warning; a signature-push failure     *)
(* under image without the marker, and any error that is no signature-push *)
(* failure, is returned as it is with no success line; a signature-push    *)
(* failure under artifact is returned with the guidance to drop the        *)
(* artifact manifest kind, marker or not.                                  *)
C10_OnlyMarkerPushUnderImage ==
    (Done /\ Remote /\ signed.called /\ signed.err # NoErr)
    => /\ ret = NoErr =>
             /\ IsPushSignatureFailed(signed.err)
             /\ ociImageManifest
             /\ HasMarker(signed.err)
       /\ (IsPushSignatureFailed(signed.err) /\ ociImageManifest
           /\ ~HasMarker(signed.err))
             => ret = signed.err /\ SuccessLines = {}
       /\ ~IsPushSignatureFailed(signed.err)
             => ret = signed.err /\ SuccessLines = {}
       /\ (IsPushSignatureFailed(signed.err) /\ ~ociImageManifest)
             => /\ ret = NewError(signed.err.msg \o ArtifactManifestGuidance)
                /\ Contains(ret.msg, "OCI image manifest")
                /\ SuccessLines = {}

C10_Witness ==
    /\ Done /\ Remote /\ signed.called /\ ociImageManifest
    /\ ~IsPushSignatureFailed(signed.err) /\ HasMarker(signed.err)
    /\ ret = signed.err
    /\ SuccessLines = {}

====
